---- MODULE Spec2Model ----
(***************************************************************************)
(* Model of src/src/libcxx/v1/printers.py: the libc++ pretty-printers.     *)
(*                                                                         *)
(* A printer ("decoder") is constructed over a value of the inferior; the  *)
(* constructor derives size/capacity, decides whether the printer gets a   *)
(* children method, and to_string renders the summary.  children() hands   *)
(* out a fresh _iterator whose __next__ is pulled by the host.             *)
(*                                                                         *)
(* Memory reads follow gdb.Value: dereference() and field access build a   *)
(* lazy handle; the read happens when the handle is formatted, compared,   *)
(* tested for truth or used in arithmetic (the source relies on this, see  *)
(* "Force read from memory" at lines 93 and 416 and line 839).  A forced   *)
(* read of an unreadable address raises gdb.MemoryError.                   *)
(***************************************************************************)
EXTENDS Integers, Sequences, FiniteSets, TLC

VARIABLES kind, mem, pc, dec, cur, subprinters, lookup, ret

\* The registry of the Printer object and the outcome of the last call on it.
regvars == <<subprinters, lookup, ret>>

\* The value under inspection, its printer and the iterators handed out.
valvars == <<kind, mem, pc, dec, cur>>

vars == <<kind, mem, pc, dec, cur, subprinters, lookup, ret>>

(***************************************************************************)
(* Bounds of the memory snapshots.                                         *)
(***************************************************************************)
MaxNodes == 2
TreeNodes == 3
MaxVec == 4
MaxWords == 3
BitsPerWord == 2
MaxMap == 2
MaxBlock == 2
MaxStr == 2
MaxArr == 2
MaxTag == 4
MaxSubprinters == 2
MaxEntries == 4

(***************************************************************************)
(* Addresses.  NULL is the null pointer (the code tests "== 0"); WILD is a *)
(* pointer into unmapped memory; HEAD is the address of the list's         *)
(* sentinel (val['__end_'].address); END is the tree's end node.           *)
(***************************************************************************)
NULL == 0
WILD == -1
HEAD == -2
END == -3
\* A lazy pointer handle read out of an unreadable node: fetching it (a
\* comparison, a truth test, a dereference) raises gdb.MemoryError.
FAULT == -4

Min(a, b) == IF a < b THEN a ELSE b

\* '[%d]' % count: the index between brackets.
Label(count) == <<"[", count, "]">>

\* A cursor (an _iterator instance): st is "open" while __next__ may still
\* yield, "done" after StopIteration, "raised" after another exception left
\* __next__, "hung" when __next__ does not return.
\* node is the pointer the iterator holds (base, node, item), size its bound
\* (num_nodes, size, finish), so the bit offset of the vector<bool> iterator.
NoCursor ==
    [st |-> "none", node |-> NULL, size |-> 0, so |-> 0, count |-> 0, out |-> <<>>]

NewCursor(node, size) ==
    [st |-> "open", node |-> node, size |-> size, so |-> 0, count |-> 0, out |-> <<>>]

Yield(c, node, val) ==
    [c EXCEPT !.node = node, !.count = c.count + 1,
              !.out = Append(c.out, <<Label(c.count), val>>)]

StopIteration(c) == [c EXCEPT !.st = "done"]

Raise(c) == [c EXCEPT !.st = "raised"]

Hang(c) == [c EXCEPT !.st = "hung"]

(***************************************************************************)
(* std::list                                                               *)
(***************************************************************************)
ListNodes == 1..MaxNodes

\* A snapshot: the stored __size_alloc_, the sentinel's __next_ and every
\* node's __next_.
ListSnapshots ==
    [size : 0..(MaxNodes + 1),
     hnext : ListNodes \cup {NULL, WILD, HEAD},
     next : [ListNodes -> ListNodes \cup {NULL, WILD, HEAD}]]

ListReadable(a) == a \in ListNodes

\* elt['__next_'] of the node at address a, as a lazy handle.
ListNext(m, a) == IF ListReadable(a) THEN m.next[a] ELSE FAULT

\* StdListPrinter._iterator.__init__
StdListPrinter_iterator_init(m, num_nodes) == NewCursor(m.hnext, num_nodes)

\* __next__ without the test of the count against num_nodes.
StdListPrinter_iterator_next_NoCount(m, c) ==
    IF c.node = FAULT THEN Raise(c)
    ELSE IF c.node = HEAD THEN StopIteration(c)
    ELSE Yield(c, ListNext(m, c.node), c.node)

\* StdListPrinter._iterator.__next__
\* The comparison self.base == self.head fetches the pointer held in
\* self.base (the __next_ field of the previous node) and is evaluated before
\* the count test; the element itself is returned as a lazy handle.
StdListPrinter_iterator_next(m, c) ==
    IF c.node = FAULT THEN Raise(c)
    ELSE IF c.node = HEAD \/ c.count = c.size THEN StopIteration(c)
    ELSE Yield(c, ListNext(m, c.node), c.node)

(***************************************************************************)
(* std::forward_list                                                       *)
(***************************************************************************)
FwdSnapshots ==
    [head : ListNodes \cup {NULL, WILD},
     next : [ListNodes -> ListNodes \cup {NULL, WILD}]]

\* StdForwardListPrinter._iterator.__init__
StdForwardListPrinter_iterator_init(head) == NewCursor(head, 0)

\* StdForwardListPrinter._iterator.__next__
StdForwardListPrinter_iterator_next(m, c) ==
    IF c.node = FAULT THEN Raise(c)
    ELSE IF c.node = NULL THEN StopIteration(c)
    ELSE Yield(c, ListNext(m, c.node), c.node)

(***************************************************************************)
(* std::unordered_set / std::unordered_map (HashTablePrinter)              *)
(***************************************************************************)
HashSnapshots ==
    [size : 0..(MaxNodes + 1),
     head : ListNodes \cup {NULL, WILD},
     next : [ListNodes -> ListNodes \cup {NULL, WILD}]]

\* HashTablePrinter._iterator.__init__
HashTablePrinter_iterator_init(m) ==
    NewCursor(m.head, IF m.size < 0 THEN 0 ELSE m.size)

\* __next__ without the test of the count against the stored size.
HashTablePrinter_iterator_next_NoCount(m, c) ==
    IF c.node = FAULT THEN Raise(c)
    ELSE IF c.node = NULL THEN StopIteration(c)
    ELSE IF ~ListReadable(c.node) THEN StopIteration(c)
    ELSE Yield(c, ListNext(m, c.node), c.node)

\* HashTablePrinter._iterator.__next__
\* '%s' % value forces the read of the node; a failure is turned into
\* StopIteration by the except clause.
HashTablePrinter_iterator_next(m, c) ==
    IF c.count >= c.size THEN StopIteration(c)
    ELSE IF c.node = FAULT THEN Raise(c)
    ELSE IF c.node = NULL THEN StopIteration(c)
    ELSE IF ~ListReadable(c.node) THEN StopIteration(c)
    ELSE Yield(c, ListNext(m, c.node), c.node)

(***************************************************************************)
(* std::set / std::map (StdRbtreePrinter)                                  *)
(***************************************************************************)
TreeAddr == (1..TreeNodes) \cup {END}

TreeReadable(a) == a \in TreeAddr

EmptyTree ==
    [left |-> [a \in TreeAddr |-> NULL],
     right |-> [a \in TreeAddr |-> NULL],
     parent |-> [a \in TreeAddr |-> NULL]]

\* libc++ __tree insertion without rebalancing: key k becomes a leaf below
\* cur; the node of key k lives at address k.
RECURSIVE Place(_, _, _)
Place(t, at, k) ==
    IF k < at
    THEN IF t.left[at] = NULL
         THEN [t EXCEPT !.left[at] = k, !.parent[k] = at]
         ELSE Place(t, t.left[at], k)
    ELSE IF t.right[at] = NULL
         THEN [t EXCEPT !.right[at] = k, !.parent[k] = at]
         ELSE Place(t, t.right[at], k)

\* The root is the left child of the end node and has it as parent.
BstInsert(t, k) ==
    IF t.left[END] = NULL
    THEN [t EXCEPT !.left[END] = k, !.parent[k] = END]
    ELSE Place(t, t.left[END], k)

RECURSIVE BuildTree(_, _)
BuildTree(keys, i) ==
    IF i = 0 THEN EmptyTree ELSE BstInsert(BuildTree(keys, i - 1), keys[i])

Perms(n) == {p \in [1..n -> 1..n] : \A i, j \in 1..n : p[i] = p[j] => i = j}

\* Every binary search tree over the keys 1..n, n <= TreeNodes.
WellFormedTrees(n) == {BuildTree(p, n) : p \in Perms(n)}

\* __begin_node_ of a well-formed tree: its leftmost node.
Leftmost(n) == IF n = 0 THEN END ELSE 1

TreeFields == {"left", "right", "parent"}

\* One link of the snapshot overwritten.
Corrupt(t, f, a, v) ==
    CASE f = "left" -> [t EXCEPT !.left[a] = v]
      [] f = "right" -> [t EXCEPT !.right[a] = v]
      [] f = "parent" -> [t EXCEPT !.parent[a] = v]

\* A snapshot: the stored count __pair3_.__first_, __begin_node_ and the
\* links.  Well-formed trees, and the same with one link overwritten or with
\* a stored count or begin node that does not match.
TreeSnapshots ==
    UNION {
      LET good == {[size |-> n, begin |-> Leftmost(n), n |-> n, ok |-> TRUE,
                    left |-> t.left, right |-> t.right, parent |-> t.parent] :
                       t \in WellFormedTrees(n)}
      IN  good
          \cup {[g EXCEPT !.size = s, !.ok = FALSE] :
                    g \in good, s \in (0..(n + 1)) \ {n}}
          \cup {[g EXCEPT !.begin = b, !.ok = FALSE] :
                    g \in good, b \in ((1..n) \cup {NULL, WILD}) \ {Leftmost(n)}}
          \cup UNION {UNION {UNION {
                 {[g EXCEPT !.left = Corrupt(g, f, a, v).left,
                            !.right = Corrupt(g, f, a, v).right,
                            !.parent = Corrupt(g, f, a, v).parent,
                            !.ok = FALSE] :
                       v \in ((1..n) \cup {NULL, WILD, END}) \ {g[f][a]}}
                 : a \in (1..n) \cup {END}} : f \in TreeFields} : g \in good}
      : n \in 0..TreeNodes }

\* while node.dereference()['__left_']: node = node.dereference()['__left_']
\* Returns the node reached, FAULT when a read raises, HUNG when the loop
\* revisits a node (it then never ends).
HUNG == -5

\* The right child taken as the successor without going left.
DescendLeftNone(m, node, fuel) == IF ~TreeReadable(node) THEN FAULT ELSE node

RECURSIVE DescendLeft(_, _, _)
DescendLeft(m, node, fuel) ==
    IF ~TreeReadable(node) THEN FAULT
    ELSE IF m.left[node] = NULL THEN node
    ELSE IF fuel = 0 THEN HUNG
    ELSE DescendLeft(m, m.left[node], fuel - 1)

\* while node != parent_node.dereference()['__left_']:
\*     node = parent_node ; parent_node = parent_node.dereference()['__parent_']
RECURSIVE Ascend(_, _, _, _)
Ascend(m, node, parent_node, fuel) ==
    IF ~TreeReadable(parent_node) THEN FAULT
    ELSE IF node = m.left[parent_node] THEN parent_node
    ELSE IF fuel = 0 THEN HUNG
    ELSE Ascend(m, parent_node, m.parent[parent_node], fuel - 1)

\* More iterations than there are loop states: the loop has repeated a state.
LoopFuel == TreeNodes + 3

\* The successor computed inside the try block of __next__.
Successor(m, node) ==
    IF ~TreeReadable(node) THEN FAULT
    ELSE IF m.right[node] # NULL
         THEN DescendLeft(m, m.right[node], LoopFuel)
         ELSE Ascend(m, node, m.parent[node], LoopFuel)

\* StdRbtreePrinter._iterator.__init__
StdRbtreePrinter_iterator_init(m) ==
    NewCursor(m.begin, IF m.size < 0 THEN 0 ELSE m.size)

\* StdRbtreePrinter._iterator.__next__
StdRbtreePrinter_iterator_next(m, c) ==
    IF c.count >= c.size THEN StopIteration(c)
    ELSE LET node == Successor(m, c.node)
         IN  IF node = FAULT THEN StopIteration(c)
             ELSE IF node = HUNG THEN Hang(c)
             ELSE Yield(c, node, c.node)

(***************************************************************************)
(* std::vector and std::vector<bool> (StdVectorPrinter)                    *)
(***************************************************************************)
\* __begin_, __end_ and __end_cap_ as element addresses; the elements at the
\* addresses in bad are unreadable.
VectorSnapshots ==
    [begin : 0..1, end : 0..MaxVec, end_cap : 0..MaxVec,
     bad : SUBSET (0..(MaxVec - 1))]

\* Storage words holding one set bit each.
WordValues == {2 ^ b : b \in 0..(BitsPerWord - 1)}

\* __size_ in bits, __cap_alloc_ in words, the storage words from address 0;
\* bad is the address of an unreadable word (MaxWords: none).
BoolVectorSnapshots ==
    [size : 0..(MaxWords * BitsPerWord + 1), cap : 0..MaxWords,
     bits_per_word : {BitsPerWord},
     words : [0..(MaxWords - 1) -> WordValues],
     bad : 0..MaxWords]

\* StdVectorPrinter._iterator.__init__
StdVectorPrinter_iterator_init(start, finish_or_size) ==
    NewCursor(start, finish_or_size)

\* elt & (1 << self.so)
BitSet(word, so) == (word \div (2 ^ so)) % 2 = 1

\* __next__ that moves to the next word without resetting the bit offset.
StdVectorPrinter_iterator_next_NoReset(m, bitvec, c) ==
    IF bitvec
    THEN IF c.count = c.size THEN StopIteration(c)
         ELSE IF c.node = m.bad \/ c.node >= MaxWords THEN Raise(c)
         ELSE LET obit == BitSet(m.words[c.node], c.so)
                  so == c.so + 1
              IN  IF so >= m.bits_per_word
                  THEN [Yield(c, c.node + 1, obit) EXCEPT !.so = so]
                  ELSE [Yield(c, c.node, obit) EXCEPT !.so = so]
    ELSE IF c.node = c.size THEN StopIteration(c)
         ELSE Yield(c, c.node + 1, c.node)

\* StdVectorPrinter._iterator.__next__
\* The bit test forces the read of the storage word; a plain element is
\* returned as a lazy handle on its address.
StdVectorPrinter_iterator_next(m, bitvec, c) ==
    IF bitvec
    THEN IF c.count = c.size THEN StopIteration(c)
         ELSE IF c.node = m.bad \/ c.node >= MaxWords THEN Raise(c)
         ELSE LET obit == BitSet(m.words[c.node], c.so)
                  so == c.so + 1
              IN  IF so >= m.bits_per_word
                  THEN [Yield(c, c.node + 1, obit) EXCEPT !.so = 0]
                  ELSE [Yield(c, c.node, obit) EXCEPT !.so = so]
    ELSE IF c.node = c.size THEN StopIteration(c)
         ELSE Yield(c, c.node + 1, c.node)

(***************************************************************************)
(* StdSplitBufferPrinter and std::deque                                    *)
(***************************************************************************)
\* Address of the k-th block; blocks do not overlap.
BlockBase(k) == k * (MaxBlock + 1)

\* __block_size, __start_, __size_, and the map: a split buffer of block
\* pointers with __begin_ at slot 0, __end_ at slot map_end and __end_cap_ at
\* slot map_cap.  A NULL block pointer cannot be dereferenced.
DequeSnapshots ==
    [block_size : 1..MaxBlock, start : 0..MaxBlock,
     size : 0..(MaxMap * MaxBlock + 1),
     map_end : 0..MaxMap, map_cap : 0..MaxMap,
     map : {f \in [0..(MaxMap - 1) -> 0..(MaxMap * (MaxBlock + 1))] :
               \A j \in 0..(MaxMap - 1) : f[j] \in {NULL, BlockBase(j + 1)}}]

\* StdSplitBufferPrinter._iterator: one element per slot in [begin, end);
\* the slots are handed out as lazy handles, so the count never fails.
SplitBufferCount(begin, end) == Cardinality({p \in begin..(end - 1) : TRUE})

\* StdSplitBufferPrinter.__init__
StdSplitBufferPrinter_init(m) ==
    LET begin == 0
        size0 == m.map_end - begin
        cap0 == m.map_cap - begin
        implausible == cap0 < size0
        size1 == IF implausible THEN -1 ELSE size0
        cap1 == IF implausible THEN -1 ELSE cap0
    IN  IF size1 > 0
        THEN IF size1 # SplitBufferCount(begin, m.map_end)
             THEN [begin |-> begin, end |-> m.map_end, size |-> -1,
                   capacity |-> -1, children |-> FALSE]
             ELSE [begin |-> begin, end |-> m.map_end, size |-> size1,
                   capacity |-> cap1, children |-> TRUE]
        ELSE [begin |-> begin, end |-> m.map_end, size |-> size1,
              capacity |-> cap1, children |-> FALSE]

\* StdDequePrinter._iterator.__init__
StdDequePrinter_iterator_init(size) == NewCursor(NULL, size)

\* The arithmetic of __next__: the element address for logical index count.
DequeBlockIndex(m, count) == (m.start + count) \div m.block_size

\* The offset computed without the start offset.
DequeOffsetNoStart(m, count) == count % m.block_size

DequeOffset(m, count) == (m.start + count) % m.block_size

\* StdDequePrinter._iterator.__next__
StdDequePrinter_iterator_next(m, blocks, c) ==
    IF c.count >= c.size THEN StopIteration(c)
    ELSE IF m.start > m.block_size THEN StopIteration(c)
    ELSE LET block_ptr == blocks.begin + DequeBlockIndex(m, c.count)
         IN  IF block_ptr >= blocks.end THEN StopIteration(c)
             ELSE Yield(c, NULL, m.map[block_ptr] + DequeOffset(m, c.count))

(***************************************************************************)
(* std::array, std::tuple, std::pair, std::bitset                          *)
(***************************************************************************)
\* template_argument(1) of the array type; the number of fields of the
\* tuple's base_.
ArraySnapshots == [n : 0..MaxArr]

\* StdArrayPrinter._iterator.__next__ ; c.size is the declared size.
StdArrayPrinter_iterator_next(c) ==
    IF c.count >= c.size THEN StopIteration(c)
    ELSE Yield(c, NULL, c.count)

\* StdTuplePrinter._iterator.__next__ ; c.size is len(self.fields).
StdTuplePrinter_iterator_next(c) ==
    IF c.count >= c.size THEN StopIteration(c)
    ELSE Yield(c, NULL, c.count)

\* __n_words storage words and the declared width template_argument(0).
BitsetSnapshots ==
    UNION {[n_words : {nw}, bits_per_word : {BitsPerWord},
            bit_count : ((nw - 1) * BitsPerWord + 1)..(nw * BitsPerWord),
            words : [0..(nw - 1) -> 0..(2 ^ BitsPerWord - 1)]] : nw \in 1..2}

\* The inner loop labelling each bit with its index inside the word.
RECURSIVE BitsetWord_NoWordOffset(_, _, _, _)
BitsetWord_NoWordOffset(word, word_index, bit_index, bits_per_word) ==
    IF word = 0 THEN <<>>
    ELSE (IF word % 2 # 0 THEN <<(<<Label(bit_index), 1>>)>> ELSE <<>>)
         \o BitsetWord_NoWordOffset(word \div 2, word_index, bit_index + 1,
                                    bits_per_word)

\* The inner loop of StdBitsetPrinter.children: the set bits of one word,
\* lowest first, each as (label, 1).
RECURSIVE BitsetWord(_, _, _, _)
BitsetWord(word, word_index, bit_index, bits_per_word) ==
    IF word = 0 THEN <<>>
    ELSE (IF word % 2 # 0
          THEN <<(<<Label(word_index * bits_per_word + bit_index), 1>>)>>
          ELSE <<>>)
         \o BitsetWord(word \div 2, word_index, bit_index + 1, bits_per_word)

\* StdBitsetPrinter.children: the outer loop over the words.
RECURSIVE StdBitsetPrinter_children(_, _)
StdBitsetPrinter_children(m, word_index) ==
    IF word_index >= m.n_words THEN <<>>
    ELSE BitsetWord(m.words[word_index], word_index, 0, m.bits_per_word)
         \o StdBitsetPrinter_children(m, word_index + 1)

\* StdPairPrinter.children: the list of the two members.
StdPairPrinter_children ==
    <<(<<"[0] = first ", "first">>), (<<"[1] = second", "second">>)>>

\* Iterating a list returned by children(): c.count indexes the list.
ListIterNext(items, c) ==
    IF c.count >= Len(items) THEN StopIteration(c)
    ELSE [c EXCEPT !.count = c.count + 1,
                   !.out = Append(c.out, items[c.count + 1])]

(***************************************************************************)
(* std::basic_string                                                       *)
(***************************************************************************)
\* Address of the inline buffer ss['__data_'] and of the heap buffer.
SBUF == 100
HBUF == 200

\* The characters a buffer may hold.
Chars == {"a", "b"}

\* ssize is ss['__size_'] (low bit: the long flag), lsize and ldata the
\* fields of the long representation; heaplen bytes are readable from HBUF.
\* The inline buffer lies in the value itself and is readable.  sdata and
\* hdata are the characters in the inline and in the heap buffer.
StringSnapshots ==
    [ssize : 0..(2 * MaxStr + 1), lsize : 0..MaxStr, ldata : {HBUF, WILD},
     heaplen : 0..(MaxStr + 1),
     sdata : [0..(MaxStr - 1) -> Chars], hdata : [0..(MaxStr - 1) -> Chars]]

CharReadable(m, a) ==
    \/ a \in SBUF..(SBUF + MaxStr)
    \/ a \in HBUF..(HBUF + m.heaplen - 1)

\* The character stored at a readable address below the terminator.
CharAt(m, a) == IF a >= HBUF THEN m.hdata[a - HBUF] ELSE m.sdata[a - SBUF]

(***************************************************************************)
(* Printers: __init__, _children / children, to_string                     *)
(***************************************************************************)
Kinds ==
    {"string", "vector", "vector_bool", "list", "forward_list", "deque",
     "tree", "hash", "array", "tuple", "pair", "bitset"}

Snapshots(k) ==
    CASE k = "string" -> StringSnapshots
      [] k = "vector" -> VectorSnapshots
      [] k = "vector_bool" -> BoolVectorSnapshots
      [] k = "list" -> ListSnapshots
      [] k = "forward_list" -> FwdSnapshots
      [] k = "deque" -> DequeSnapshots
      [] k = "tree" -> TreeSnapshots
      [] k = "hash" -> HashSnapshots
      [] k = "array" -> ArraySnapshots
      [] k = "tuple" -> ArraySnapshots
      [] k = "pair" -> {[n |-> 2]}
      [] k = "bitset" -> BitsetSnapshots

\* The printer object.  size, capacity and ptr are the attributes of the
\* same name; children says whether the object has a children attribute;
\* probe lists the addresses read by the first/last audit; err records why
\* a constructor gave up ("unreadable": a read raised, "inconsistent":
\* counts disagree, or the conjunct that rejected a deque).
Printer(size, capacity, children, ptr, probe, err) ==
    [size |-> size, capacity |-> capacity, children |-> children,
     ptr |-> ptr, probe |-> probe, err |-> err]

NoPrinter == Printer(0, 0, FALSE, NULL, <<>>, "none")

Built(d) == [pc |-> "built", dec |-> d]

\* The exception left __init__: no printer object exists.
Raised == [pc |-> "raised", dec |-> NoPrinter]

\* __init__ does not return.
Hung == [pc |-> "hung", dec |-> NoPrinter]

\* The _iterator.__next__ of each printer.
IterNext(k, m, c) ==
    CASE k = "list" -> StdListPrinter_iterator_next(m, c)
      [] k = "forward_list" -> StdForwardListPrinter_iterator_next(m, c)
      [] k = "hash" -> HashTablePrinter_iterator_next(m, c)
      [] k = "tree" -> StdRbtreePrinter_iterator_next(m, c)
      [] k = "vector" -> StdVectorPrinter_iterator_next(m, FALSE, c)
      [] k = "vector_bool" -> StdVectorPrinter_iterator_next(m, TRUE, c)
      [] k = "deque" ->
           StdDequePrinter_iterator_next(m, StdSplitBufferPrinter_init(m), c)
      [] k = "array" -> StdArrayPrinter_iterator_next(c)
      [] k = "tuple" -> StdTuplePrinter_iterator_next(c)
      [] k = "pair" -> ListIterNext(StdPairPrinter_children, c)
      [] k = "bitset" -> ListIterNext(StdBitsetPrinter_children(m, 0), c)

\* The pulls after which list(iterator) has returned unless it never does:
\* a forward_list walk that has yielded more nodes than there are addresses
\* has revisited one and goes on for ever; every other iterator has stopped
\* by the time it has been pulled once more than its bound.
DrainFuel(k, c) == IF k = "forward_list" THEN MaxNodes + 2 ELSE c.size + 1

\* list(iterator): pull until StopIteration or an exception.
RECURSIVE Drain(_, _, _, _)
Drain(k, m, c, fuel) ==
    IF c.st # "open" THEN c
    ELSE IF fuel = 0 THEN Hang(c)
    ELSE Drain(k, m, IterNext(k, m, c), fuel - 1)

list(k, m, c) == Drain(k, m, c, DrainFuel(k, c))

\* StdListPrinter.__init__
StdListPrinter_init(m) ==
    LET iterator == list("list", m, StdListPrinter_iterator_init(m, m.size))
    IN  IF iterator.st = "raised"
        THEN Built(Printer(-1, 0, FALSE, NULL, <<>>, "unreadable"))
        ELSE IF m.size # Len(iterator.out)
        THEN Built(Printer(-1, 0, FALSE, NULL, <<>>, "inconsistent"))
        ELSE Built(Printer(m.size, 0, m.size > 0, NULL, <<>>, "none"))

\* StdForwardListPrinter.__init__
StdForwardListPrinter_init(m) ==
    LET iterator ==
            list("forward_list", m, StdForwardListPrinter_iterator_init(m.head))
        size == Len(iterator.out)
    IN  IF iterator.st = "hung" THEN Hung
        ELSE IF iterator.st = "raised"
        THEN Built(Printer(-1, 0, FALSE, NULL, <<>>, "unreadable"))
        ELSE Built(Printer(size, 0, size > 0, NULL, <<>>, "none"))

\* __init__ without the comparison of the count against len(iterator).
StdRbtreePrinter_init_NoCompare(m) ==
    LET iterator == list("tree", m, StdRbtreePrinter_iterator_init(m))
        size == Len(iterator.out)
    IN  IF iterator.st = "hung" THEN Hung
        ELSE Built(Printer(size, 0, size > 0, NULL, <<>>, "none"))

\* StdRbtreePrinter.__init__ ; len(iterator) is the iterator's stored size.
StdRbtreePrinter_init(m) ==
    LET iterator == list("tree", m, StdRbtreePrinter_iterator_init(m))
        size == Len(iterator.out)
    IN  IF iterator.st = "hung" THEN Hung
        ELSE IF iterator.st = "raised"
        THEN Built(Printer(-1, 0, FALSE, NULL, <<>>, "unreadable"))
        ELSE IF size # iterator.size
        THEN Built(Printer(-1, 0, FALSE, NULL, <<>>, "inconsistent"))
        ELSE Built(Printer(size, 0, size > 0, NULL, <<>>, "none"))

\* HashTablePrinter.__init__
HashTablePrinter_init(m) ==
    LET iterator == list("hash", m, HashTablePrinter_iterator_init(m))
        size == Len(iterator.out)
    IN  IF iterator.st = "raised"
        THEN Built(Printer(-1, 0, FALSE, NULL, <<>>, "unreadable"))
        ELSE IF size # iterator.size
        THEN Built(Printer(-1, 0, FALSE, NULL, <<>>, "inconsistent"))
        ELSE Built(Printer(size, 0, size > 0, NULL, <<>>, "none"))

\* The audit with the read of the last element left out.
VectorProbeFrontOnly(readable, front_ptr, back_ptr) ==
    [ok |-> readable[front_ptr], reads |-> <<front_ptr>>]

\* The audit of StdVectorPrinter.__init__: format front_ptr.dereference()
\* and back_ptr.dereference(); the second is read only if the first could be.
VectorProbe(readable, front_ptr, back_ptr) ==
    IF ~readable[front_ptr] THEN [ok |-> FALSE, reads |-> <<front_ptr>>]
    ELSE [ok |-> readable[back_ptr], reads |-> <<front_ptr, back_ptr>>]

\* StdVectorPrinter.__init__
StdVectorPrinter_init(m, is_bool) ==
    LET size0 == IF is_bool THEN m.size ELSE m.end - m.begin
        capacity == IF is_bool THEN m.cap * m.bits_per_word
                    ELSE m.end_cap - m.begin
        size1 == IF size0 > capacity THEN -1 ELSE size0
        front_ptr == IF is_bool THEN 0 ELSE m.begin
        back_ptr == IF is_bool
                    THEN front_ptr + ((size1 - 1) \div m.bits_per_word)
                    ELSE m.end - 1
        readable == [a \in {front_ptr, back_ptr} |->
                        IF is_bool THEN a # m.bad ELSE a \notin m.bad]
        audit == VectorProbe(readable, front_ptr, back_ptr)
    IN  IF size1 > 0
        THEN IF audit.ok
             THEN Built(Printer(size1, capacity, TRUE, NULL, audit.reads, "none"))
             ELSE Built(Printer(-1, capacity, FALSE, NULL, audit.reads,
                                "unreadable"))
        ELSE Built(Printer(size1, capacity, FALSE, NULL, <<>>,
                           IF size0 > capacity THEN "inconsistent" ELSE "none"))

\* The count tested against the capacity of the map instead of its size.
DequeCountCheckCapacity(size, blocks, block_size) ==
    size <= blocks.capacity * block_size

\* The test that lets StdDequePrinter.__init__ walk the deque.
DequeCountCheck(size, blocks, block_size) == size <= blocks.size * block_size

\* The condition of the if in StdDequePrinter.__init__, its conjuncts in
\* the order Python evaluates them: "ok", or the first conjunct that fails.
DequePlausible(m, blocks) ==
    IF ~(m.size > 0) THEN "size"
    ELSE IF ~(m.start < m.block_size) THEN "start"
    ELSE IF ~blocks.children THEN "map"
    ELSE IF ~DequeCountCheck(m.size, blocks, m.block_size) THEN "count"
    ELSE "ok"

\* for (idx, ptr) in self.blocks.children(): '%s' % ptr.dereference()
\* No except clause surrounds the loop.
DequeBlocksReadable(m, blocks) ==
    \A p \in blocks.begin..(blocks.end - 1) : m.map[p] # NULL

\* __init__ that trusts the stored count without comparing the walk with it.
StdDequePrinter_init_NoCompare(m) ==
    LET blocks == StdSplitBufferPrinter_init(m)
        capacity == blocks.capacity * m.block_size
    IN  IF DequePlausible(m, blocks) = "ok"
        THEN IF ~DequeBlocksReadable(m, blocks) THEN Raised
             ELSE Built(Printer(m.size, capacity, TRUE, NULL, <<>>, "none"))
        ELSE Built(Printer(-1, capacity, FALSE, NULL, <<>>,
                           DequePlausible(m, blocks)))

\* StdDequePrinter.__init__
StdDequePrinter_init(m) ==
    LET blocks == StdSplitBufferPrinter_init(m)
        capacity == blocks.capacity * m.block_size
    IN  IF DequePlausible(m, blocks) = "ok"
        THEN IF ~DequeBlocksReadable(m, blocks) THEN Raised
             ELSE LET iterator ==
                          list("deque", m, StdDequePrinter_iterator_init(m.size))
                  IN  IF m.size # Len(iterator.out)
                      THEN Built(Printer(-1, capacity, FALSE, NULL, <<>>,
                                         "inconsistent"))
                      ELSE Built(Printer(m.size, capacity, TRUE, NULL, <<>>,
                                         "none"))
        ELSE Built(Printer(-1, capacity, FALSE, NULL, <<>>,
                           DequePlausible(m, blocks)))

\* __init__ taking the short size without the shift.
StdStringPrinter_init_NoShift(m) ==
    LET short == (m.ssize % 2) = 0
        size == IF short THEN m.ssize ELSE m.lsize
        ptr == IF short THEN SBUF ELSE m.ldata
        audit == VectorProbe([a \in {ptr, ptr + size} |-> CharReadable(m, a)],
                             ptr, ptr + size)
    IN  IF size >= 0
        THEN IF audit.ok
             THEN Built(Printer(size, 0, FALSE, ptr, audit.reads, "none"))
             ELSE Built(Printer(-1, 0, FALSE, 0, audit.reads, "unreadable"))
        ELSE Built(Printer(size, 0, FALSE, ptr, <<>>, "none"))

\* StdStringPrinter.__init__: pointer and size from the short or the long
\* representation, then the audit of the first and the last character.
StdStringPrinter_init(m) ==
    LET short == (m.ssize % 2) = 0
        size == IF short THEN m.ssize \div 2 ELSE m.lsize
        ptr == IF short THEN SBUF ELSE m.ldata
        audit == VectorProbe([a \in {ptr, ptr + size} |-> CharReadable(m, a)],
                             ptr, ptr + size)
    IN  IF size >= 0
        THEN IF audit.ok
             THEN Built(Printer(size, 0, FALSE, ptr, audit.reads, "none"))
             ELSE Built(Printer(-1, 0, FALSE, 0, audit.reads, "unreadable"))
        ELSE Built(Printer(size, 0, FALSE, ptr, <<>>, "none"))

\* StdArrayPrinter, StdTuplePrinter, StdPairPrinter, StdBitsetPrinter:
\* __init__ stores the value; children is a method of the class, so every
\* instance has it.  Only the array and the bitset keep a size.
StdArrayPrinter_init(m) == Built(Printer(m.n, 0, TRUE, NULL, <<>>, "none"))

StdTuplePrinter_init(m) == Built(Printer(0, 0, TRUE, NULL, <<>>, "none"))

StdPairPrinter_init(m) == Built(Printer(0, 0, TRUE, NULL, <<>>, "none"))

StdBitsetPrinter_init(m) ==
    Built(Printer(m.bit_count, 0, TRUE, NULL, <<>>, "none"))

\* Constructing the printer registered for the kind.
Construct(k, m) ==
    CASE k = "string" -> StdStringPrinter_init(m)
      [] k = "vector" -> StdVectorPrinter_init(m, FALSE)
      [] k = "vector_bool" -> StdVectorPrinter_init(m, TRUE)
      [] k = "list" -> StdListPrinter_init(m)
      [] k = "forward_list" -> StdForwardListPrinter_init(m)
      [] k = "deque" -> StdDequePrinter_init(m)
      [] k = "tree" -> StdRbtreePrinter_init(m)
      [] k = "hash" -> HashTablePrinter_init(m)
      [] k = "array" -> StdArrayPrinter_init(m)
      [] k = "tuple" -> StdTuplePrinter_init(m)
      [] k = "pair" -> StdPairPrinter_init(m)
      [] k = "bitset" -> StdBitsetPrinter_init(m)

\* _children() / children(): a new iterator from the printer's stored state.
children(k, m, d) ==
    CASE k = "list" -> StdListPrinter_iterator_init(m, d.size)
      [] k = "forward_list" -> StdForwardListPrinter_iterator_init(m.head)
      [] k = "hash" -> HashTablePrinter_iterator_init(m)
      [] k = "tree" -> StdRbtreePrinter_iterator_init(m)
      [] k = "vector" -> StdVectorPrinter_iterator_init(m.begin, m.end)
      [] k = "vector_bool" -> StdVectorPrinter_iterator_init(0, m.size)
      [] k = "deque" -> StdDequePrinter_iterator_init(d.size)
      [] k = "array" -> NewCursor(NULL, d.size)
      [] k = "tuple" -> NewCursor(NULL, m.n)
      [] k = "pair" -> NewCursor(NULL, Len(StdPairPrinter_children))
      [] k = "bitset" -> NewCursor(NULL, Len(StdBitsetPrinter_children(m, 0)))

\* Summaries: form is the shape of the string, n and cap the numbers in it,
\* text the characters of a decoded string.
Summary(form, n, cap) == [form |-> form, n |-> n, cap |-> cap, text |-> <<>>]

invalid == Summary("invalid", 0, 0)

\* to_string of the list, forward_list, set/map and unordered printers.
CountedToString(d, form) ==
    IF d.size = 0 THEN Summary("empty", 0, 0)
    ELSE IF d.size > 0 THEN Summary(form, d.size, 0)
    ELSE invalid

\* to_string with the capacity taken as the end-of-capacity address.
StdVectorPrinter_to_string_NoBegin(m, is_bool, d) ==
    IF d.size = 0 THEN Summary("empty", 0, 0)
    ELSE IF d.size > 0
    THEN LET capacity == IF is_bool THEN m.cap * m.bits_per_word
                         ELSE m.end_cap
         IN  Summary("length_capacity", d.size, capacity)
    ELSE invalid

\* StdVectorPrinter.to_string ; the capacity is read again from the value.
\* The 'empty %s (capacity=%d)' returns sit inside the branch taken for
\* size > 0, behind the plain 'empty' returned for size 0.
StdVectorPrinter_to_string(m, is_bool, d) ==
    IF d.size = 0 THEN Summary("empty", 0, 0)
    ELSE IF d.size > 0
    THEN LET capacity == IF is_bool THEN m.cap * m.bits_per_word
                         ELSE m.end_cap - m.begin
         IN  IF d.size = 0 THEN Summary("empty_capacity", 0, capacity)
             ELSE Summary("length_capacity", d.size, capacity)
    ELSE invalid

\* StdDequePrinter.to_string
StdDequePrinter_to_string(d) ==
    IF d.size = 0 THEN Summary("empty", 0, 0)
    ELSE IF d.size > 0 THEN Summary("length_capacity", d.size, d.capacity)
    ELSE invalid

\* StdStringPrinter.to_string: self.ptr.string(length=self.size) reads the
\* size characters from ptr; a failure gives 'invalid'.
StdStringPrinter_to_string(m, d) ==
    IF d.size >= 0 /\ \A i \in 0..(d.size - 1) : CharReadable(m, d.ptr + i)
    THEN [form |-> "string", n |-> d.size, cap |-> 0,
          text |-> [i \in 1..d.size |-> CharAt(m, d.ptr + i - 1)]]
    ELSE invalid

to_string(k, m, d) ==
    CASE k = "string" -> StdStringPrinter_to_string(m, d)
      [] k = "vector" -> StdVectorPrinter_to_string(m, FALSE, d)
      [] k = "vector_bool" -> StdVectorPrinter_to_string(m, TRUE, d)
      [] k = "list" -> CountedToString(d, "length")
      [] k = "forward_list" -> CountedToString(d, "length")
      [] k = "deque" -> StdDequePrinter_to_string(d)
      [] k = "tree" -> CountedToString(d, "count")
      [] k = "hash" -> CountedToString(d, "count")
      [] k = "array" -> Summary("length", d.size, 0)
      [] k = "tuple" -> IF m.n = 0 THEN Summary("empty", 0, 0)
                        ELSE Summary("tuple", 0, 0)
      [] k = "pair" -> Summary("pair", 0, 0)
      [] k = "bitset" -> Summary("length", d.size, 0)

(***************************************************************************)
(* The dispatch registry: RxPrinter and Printer                            *)
(***************************************************************************)
\* Characters of type tags and names: "a" stands for the characters of the
\* class [a-zA-Z0-9_:]; "<" and ">" are outside the class.
TagChars == {"a", "<", ">"}

ClassChars == {"a"}

\* type.tag is None for a type without a tag; None and '' are both false.
None == <<>>

Tags == UNION {[1..n -> TagChars] : n \in 0..MaxTag}

\* val.type: a struct or class type with its tag, or a reference to one.
ValueTypes ==
    {[code |-> "struct", tag |-> t, target |-> None] : t \in Tags}
        \cup {[code |-> "ref", tag |-> None, target |-> t] : t \in Tags}

\* Printer.get_basic_type
get_basic_type(type) == IF type.code = "ref" THEN type.target ELSE type.tag

\* The length of the longest prefix of s made of characters of the class.
ClassPrefix(s) ==
    CHOOSE k \in 0..Len(s) :
        /\ \A i \in 1..k : s[i] \in ClassChars
        /\ k = Len(s) \/ s[k + 1] \notin ClassChars

\* self.compiled_rx.match(s) for '^([a-zA-Z0-9_:]+)<.*>$': group 1, or None.
\* The group cannot contain "<", so it is the whole prefix of class
\* characters; ".*" takes whatever lies before the final ">".
compiled_rx_match(s) ==
    LET k == ClassPrefix(s)
    IN  IF k >= 1 /\ Len(s) >= k + 2 /\ s[k + 1] = "<" /\ s[Len(s)] = ">"
        THEN SubSeq(s, 1, k)
        ELSE None

\* The constructors handed to add.
Functions == {"StdVectorPrinter", "StdListPrinter"}

\* RxPrinter.__init__
RxPrinter(name, function) ==
    [name |-> name, function |-> function, enabled |-> TRUE]

\* What __call__ returns when it declines.
NoDecoder == [function |-> "None", typename |-> None]

\* invoke that does not look at the enabled attribute.
RxPrinter_invoke_IgnoreEnabled(p) ==
    [function |-> p.function, typename |-> p.name]

\* RxPrinter.invoke: self.function(self.name, value), the printer object
\* named by its constructor and the typename it was given.
RxPrinter_invoke(p) ==
    IF ~p.enabled THEN NoDecoder
    ELSE [function |-> p.function, typename |-> p.name]

\* Printer.add: accepted names are appended to the list and entered in the
\* dictionary; the others raise ValueError.
Printer_add(subs, look, name, function) ==
    IF compiled_rx_match(name \o <<"<", ">">>) = None
    THEN [raised |-> TRUE, subprinters |-> subs, lookup |-> look]
    ELSE [raised |-> FALSE,
          subprinters |-> Append(subs, RxPrinter(name, function)),
          lookup |-> [n \in (DOMAIN look) \cup {name} |->
                         IF n = name THEN Len(subs) + 1 ELSE look[n]]]

\* The namespace '__1::' inserted by add_version: characters of the class.
VersionNs == <<"a">>

\* Printer.add_version: two adds; an exception raised by the first leaves
\* the second undone.
Printer_add_version(subs, look, base, name, function) ==
    LET r == Printer_add(subs, look, base \o name, function)
    IN  IF r.raised THEN r
        ELSE Printer_add(r.subprinters, r.lookup, base \o VersionNs \o name,
                         function)

\* Printer.add_container: add_version for the base and for the base
\* followed by '__1::'.
Printer_add_container(subs, look, base, name, function) ==
    LET r == Printer_add_version(subs, look, base, name, function)
    IN  IF r.raised THEN r
        ELSE Printer_add_version(r.subprinters, r.lookup, base \o VersionNs,
                                 name, function)

\* Printer.__call__ ; the dictionary holds the position of the RxPrinter
\* object in the list.
Printer_call(subs, look, type) ==
    LET typename == get_basic_type(type)
    IN  IF typename = None THEN NoDecoder
        ELSE LET basename == compiled_rx_match(typename)
             IN  IF basename = None THEN NoDecoder
                 ELSE IF basename \in DOMAIN look
                 THEN RxPrinter_invoke(subs[look[basename]])
                 ELSE NoDecoder

\* The names offered to add: two of the class and one outside it.
AddNames == {<<"a">>, <<"a", "a">>, <<">">>}

NoCall == [op |-> "none", arg |-> None, raised |-> FALSE, val |-> NoDecoder]

(***************************************************************************)
(* The host: construct a printer over a snapshot, ask for iterators, pull. *)
(***************************************************************************)
Cursors == 1..2

Init ==
    /\ kind \in Kinds
    /\ mem \in Snapshots(kind)
    /\ pc = "new"
    /\ dec = NoPrinter
    /\ cur = [i \in Cursors |-> NoCursor]
    /\ subprinters = <<>>
    /\ lookup = <<>>
    /\ ret = NoCall

\* Printer.__call__ -> RxPrinter.invoke -> the printer's constructor.
ConstructPrinter ==
    /\ pc = "new"
    /\ pc' = Construct(kind, mem).pc
    /\ dec' = Construct(kind, mem).dec
    /\ UNCHANGED <<kind, mem, cur>>
    /\ UNCHANGED regvars

\* The host calls children() where the printer has the attribute.
CallChildren(i) ==
    /\ pc = "built"
    /\ dec.children
    /\ cur[i].st = "none"
    /\ cur' = [cur EXCEPT ![i] = children(kind, mem, dec)]
    /\ UNCHANGED <<kind, mem, pc, dec>>
    /\ UNCHANGED regvars

\* The position kept in one place for all iterators of the printer.
PullUpdateShared(cs, i, c) ==
    [j \in DOMAIN cs |->
        IF j = i THEN c
        ELSE IF cs[j].st = "open"
        THEN [cs[j] EXCEPT !.node = c.node, !.count = c.count, !.so = c.so]
        ELSE cs[j]]

\* One __next__ on iterator i: only that iterator's attributes change.
PullUpdate(cs, i, c) == [cs EXCEPT ![i] = c]

\* The printer marked invalid when a sequence ends short of its size.
PrinterAfterPull_Reconcile(d, c) ==
    IF c.st # "open" /\ c.count # d.size THEN [d EXCEPT !.size = -1] ELSE d

\* The printer object after a __next__: the iterators assign attributes of
\* the iterator only, the printer's are left as __init__ set them.
PrinterAfterPull(d, c) == d

Pull(i) ==
    /\ cur[i].st = "open"
    /\ cur' = PullUpdate(cur, i, IterNext(kind, mem, cur[i]))
    /\ dec' = PrinterAfterPull(dec, IterNext(kind, mem, cur[i]))
    /\ UNCHANGED <<kind, mem, pc>>
    /\ UNCHANGED regvars

Next ==
    \/ ConstructPrinter
    \/ \E i \in Cursors : CallChildren(i)
    \/ \E i \in Cursors : Pull(i)

Spec == Init /\ [][Next]_vars

(***************************************************************************)
(* The registry on its own: names are added, subprinters are switched off  *)
(* and on by the host, values are dispatched.                              *)
(***************************************************************************)
InitRegistry ==
    /\ kind = "pair"
    /\ mem = [n |-> 2]
    /\ pc = "new"
    /\ dec = NoPrinter
    /\ cur = [i \in Cursors |-> NoCursor]
    /\ subprinters = <<>>
    /\ lookup = <<>>
    /\ ret = NoCall

\* libcxx_printer.add(name, function)
Add(name, function) ==
    /\ Len(subprinters) < MaxSubprinters
    /\ LET r == Printer_add(subprinters, lookup, name, function)
       IN  /\ subprinters' = r.subprinters
           /\ lookup' = r.lookup
           /\ ret' = [op |-> "add", arg |-> name, raised |-> r.raised,
                      val |-> NoDecoder]
    /\ UNCHANGED valvars

\* The host's enable / disable pretty-printer sets the attribute of one
\* subprinter of the list.
SetEnabled(i, b) ==
    /\ i \in 1..Len(subprinters)
    /\ subprinters[i].enabled # b
    /\ subprinters' = [subprinters EXCEPT ![i].enabled = b]
    /\ ret' = NoCall
    /\ UNCHANGED <<lookup, kind, mem, pc, dec, cur>>

\* libcxx_printer(val): the host calls the printer and waits for what it
\* returns before it calls again.
Call(type) ==
    /\ ret.op # "call"
    /\ ret' = [op |-> "call", arg |-> type, raised |-> FALSE,
               val |-> Printer_call(subprinters, lookup, type)]
    /\ UNCHANGED <<subprinters, lookup, kind, mem, pc, dec, cur>>

\* The host takes the value __call__ returned.
Return ==
    /\ ret.op = "call"
    /\ ret' = NoCall
    /\ UNCHANGED <<subprinters, lookup, kind, mem, pc, dec, cur>>

NextRegistry ==
    \/ \E name \in AddNames, function \in Functions : Add(name, function)
    \/ \E i \in 1..MaxSubprinters, b \in BOOLEAN : SetEnabled(i, b)
    \/ \E type \in ValueTypes : Call(type)
    \/ Return

SpecRegistry == InitRegistry /\ [][NextRegistry]_vars

(***************************************************************************)
(* Building the dictionary: add, add_version and add_container in any      *)
(* order, subprinters of the list switched off and on, and values of the   *)
(* registered names dispatched.                                            *)
(***************************************************************************)
\* The names handed to add: one of the class, one with "<" after a
\* character of the class, one that starts outside the class.
BuildNames == {<<"a">>, <<"a", "<">>, <<">">>}

\* The base ('std::') and the name handed to add_version and add_container.
BuildBases == {<<"a">>}

BuildTypeNames == {<<"a">>}

\* libcxx_printer.add(name, function)
BuildAdd(name, function) ==
    /\ Len(subprinters) + 1 <= MaxEntries
    /\ LET r == Printer_add(subprinters, lookup, name, function)
       IN  /\ subprinters' = r.subprinters
           /\ lookup' = r.lookup
           /\ ret' = [op |-> "add", arg |-> name, raised |-> r.raised,
                      val |-> NoDecoder]
    /\ UNCHANGED valvars

\* libcxx_printer.add_version(base, name, function)
BuildAddVersion(base, name, function) ==
    /\ Len(subprinters) + 2 <= MaxEntries
    /\ LET r == Printer_add_version(subprinters, lookup, base, name, function)
       IN  /\ subprinters' = r.subprinters
           /\ lookup' = r.lookup
           /\ ret' = [op |-> "add_version", arg |-> base \o name,
                      raised |-> r.raised, val |-> NoDecoder]
    /\ UNCHANGED valvars

\* libcxx_printer.add_container(base, name, function)
BuildAddContainer(base, name, function) ==
    /\ Len(subprinters) + 4 <= MaxEntries
    /\ LET r == Printer_add_container(subprinters, lookup, base, name, function)
       IN  /\ subprinters' = r.subprinters
           /\ lookup' = r.lookup
           /\ ret' = [op |-> "add_container", arg |-> base \o name,
                      raised |-> r.raised, val |-> NoDecoder]
    /\ UNCHANGED valvars

\* libcxx_printer(val) for a value whose tag is the name of the i-th
\* subprinter of the list followed by '<>'.
DispatchListed(i) ==
    /\ i \in 1..Len(subprinters)
    /\ Call([code |-> "struct", tag |-> subprinters[i].name \o <<"<", ">">>,
             target |-> None])

NextDictionary ==
    \/ \E name \in BuildNames, function \in Functions :
          BuildAdd(name, function)
    \/ \E base \in BuildBases, name \in BuildTypeNames, function \in Functions :
          BuildAddVersion(base, name, function)
    \/ \E base \in BuildBases, name \in BuildTypeNames, function \in Functions :
          BuildAddContainer(base, name, function)
    \/ \E i \in 1..MaxEntries, b \in BOOLEAN : SetEnabled(i, b)
    \/ \E i \in 1..MaxEntries : DispatchListed(i)
    \/ Return

SpecDictionary == InitRegistry /\ [][NextDictionary]_vars

(***************************************************************************)
(* Claims                                                                  *)
(***************************************************************************)
Summary_now == to_string(kind, mem, dec)

Finished(c) == c.st \in {"done", "raised", "hung"}

\* C1: constructing a decoder over a snapshot in which a read fails or in
\* which counts disagree never raises: the constructor returns a decoder and
\* its summary is 'invalid' (in particular for a deque with a block pointer
\* that cannot be dereferenced).
C1_ConstructorNeverRaises ==
    /\ pc # "raised"
    /\ (pc = "built" /\ dec.err # "none") => Summary_now = invalid

\* The number of elements the value holds, per kind.
Described(k, m, d) ==
    CASE k \in {"array", "tuple"} -> m.n
      [] k = "pair" -> 2
      [] k = "bitset" -> Len(StdBitsetPrinter_children(m, 0))
      [] OTHER -> d.size

\* C2: for every decoder kind, after construction the children accessor is
\* present only if the decoder is valid and describes at least one element
\* (array of size 0, tuple without fields, bitset without set bits included).
C2_ChildrenOnlyIfValidNonEmpty ==
    (pc = "built" /\ dec.children)
        => (Summary_now # invalid /\ Described(kind, mem, dec) > 0)

\* The first and the last logically-indexed element of a vector or string
\* whose pointer-derived size the constructor goes on to audit.
Audited ==
    CASE kind = "vector" ->
           [on |-> 0 < mem.end - mem.begin
                     /\ mem.end - mem.begin <= mem.end_cap - mem.begin,
            first |-> mem.begin, last |-> mem.end - 1,
            bad |-> mem.bad]
      [] kind = "vector_bool" ->
           [on |-> 0 < mem.size /\ mem.size <= mem.cap * mem.bits_per_word,
            first |-> 0, last |-> (mem.size - 1) \div mem.bits_per_word,
            bad |-> {mem.bad}]
      [] kind = "string" ->
           LET long == mem.ssize % 2 = 1
               p == IF long THEN mem.ldata ELSE SBUF
               n == IF long THEN mem.lsize ELSE mem.ssize \div 2
           IN  [on |-> TRUE, first |-> p, last |-> p + n,
                bad |-> {a \in {p, p + n} : ~CharReadable(mem, a)}]
      [] OTHER -> [on |-> FALSE, first |-> 0, last |-> 0, bad |-> {}]

BoundaryUnreadable ==
    Audited.on /\ (Audited.first \in Audited.bad \/ Audited.last \in Audited.bad)

\* C3: for the vector and string decoders, if the read of the first or of
\* the last element fails in the construction-time probe, the size is -1,
\* the summary is 'invalid', there is no children accessor, and nothing but
\* the two boundary elements was read.
C3_ProbeFailureInvalidates ==
    (pc = "built" /\ BoundaryUnreadable)
        => /\ dec.size = -1
           /\ Summary_now = invalid
           /\ ~dec.children
           /\ \A i \in Cursors : cur[i].st = "none"
           /\ Len(dec.probe) <= 2
           /\ \A j \in 1..Len(dec.probe) :
                 dec.probe[j] \in {Audited.first, Audited.last}

\* A vector whose first element is readable and whose last is not.
C3_Witness ==
    /\ pc = "built"
    /\ kind = "vector"
    /\ Audited.on
    /\ Audited.first \notin Audited.bad
    /\ Audited.last \in Audited.bad
    /\ dec.size = -1

C4Kinds ==
    {"vector", "vector_bool", "list", "forward_list", "deque", "tree", "hash"}

\* C4: for every decoder that is valid with reported size N > 0, fully
\* consuming one element sequence yields exactly N elements labelled
\* 0, 1, ..., N-1 in that order.
C4_ConsumedYieldsSize ==
    \A i \in Cursors :
        (pc = "built" /\ kind \in C4Kinds /\ dec.size > 0 /\ Finished(cur[i]))
            => /\ cur[i].st = "done"
               /\ Len(cur[i].out) = dec.size
               /\ \A j \in 1..Len(cur[i].out) : cur[i].out[j][1] = <<"[", j - 1, "]">>

IsPrefix(a, b) == Len(a) <= Len(b) /\ \A j \in 1..Len(a) : a[j] = b[j]

\* What one iterator of the printer produces when it is consumed alone.
Alone == list(kind, mem, children(kind, mem, dec))

\* C5: element sequences are restartable and cursors share no state: under
\* any interleaving of pulls, every cursor has produced a prefix of the
\* sequence a cursor consumed alone produces, ends as that one ends, and two
\* finished cursors have produced equal sequences.
C5_Restartable ==
    /\ \A i \in Cursors :
          cur[i].st # "none"
              => /\ IsPrefix(cur[i].out, Alone.out)
                 /\ Finished(cur[i])
                       => (cur[i].out = Alone.out /\ cur[i].st = Alone.st)
    /\ (Finished(cur[1]) /\ Finished(cur[2])) => cur[1].out = cur[2].out

\* One cursor finished while the other is part of the way through.
C5_Witness ==
    /\ cur[1].st = "done"
    /\ cur[2].st = "open"
    /\ 0 < Len(cur[2].out)
    /\ Len(cur[2].out) < Len(cur[1].out)

\* C6: every decoder construction and every single pull on a cursor
\* terminates on every finite snapshot, snapshots with cyclic links included.
C6_Terminates ==
    /\ pc # "hung"
    /\ \A i \in Cursors : cur[i].st # "hung"

\* The number of nodes on the chain from the sentinel's next pointer back to
\* the sentinel; -1 if the chain does not return to it.
RECURSIVE ChainToSentinel(_, _, _)
ChainToSentinel(m, a, n) ==
    IF a = HEAD THEN n
    ELSE IF a \notin ListNodes \/ n > MaxNodes THEN -1
    ELSE ChainToSentinel(m, m.next[a], n + 1)

ChainLength == ChainToSentinel(mem, mem.hnext, 0)

\* The j-th node of the chain, j >= 1.
RECURSIVE ChainNode(_, _, _)
ChainNode(m, a, j) == IF j = 1 THEN a ELSE ChainNode(m, m.next[a], j - 1)

ListInvalid == dec.size = -1 /\ Summary_now = invalid /\ ~dec.children

\* C7 as stated: a list whose chain returns to the sentinel after a number
\* of nodes different from the stored count (fewer or more) is invalid.
C7_AnyMismatchInvalidates ==
    (pc = "built" /\ kind = "list" /\ ChainLength >= 0
       /\ ChainLength # mem.size) => ListInvalid

\* C7 amended: the cursor starts at the sentinel's next pointer, follows the
\* next links and stops at the sentinel or after stored-count elements; a
\* chain with fewer nodes than the stored count makes the decoder invalid; a
\* chain with at least stored-count nodes (more nodes included) gives a valid
\* decoder of the stored count whose sequence is the first stored-count
\* nodes.
C7_ListCountReconciliation ==
    (pc = "built" /\ kind = "list" /\ ChainLength >= 0)
        => /\ ChainLength < mem.size => ListInvalid
           /\ ChainLength >= mem.size
                 => /\ dec.size = mem.size
                    /\ dec.children <=> mem.size > 0
                    /\ Summary_now # invalid
           /\ \A i \in Cursors :
                 /\ Len(cur[i].out) <= Min(ChainLength, mem.size)
                 /\ \A j \in 1..Len(cur[i].out) :
                       cur[i].out[j] =
                          <<(<<"[", j - 1, "]">>), ChainNode(mem, mem.hnext, j)>>
                 /\ Finished(cur[i])
                       => (cur[i].st = "done" /\ Len(cur[i].out) = mem.size)

\* A chain longer than the stored count, walked to the end of the sequence.
C7_Witness ==
    /\ pc = "built"
    /\ kind = "list"
    /\ mem.size > 0
    /\ ChainLength > mem.size
    /\ cur[1].st = "done"
    /\ Len(cur[1].out) = mem.size

DequeRejected == dec.size = -1 /\ Summary_now = invalid /\ ~dec.children

\* C8 as stated: the deque decoder rejects a start offset not below the
\* block size, an invalid map and a stored count above map-capacity x
\* block-size, and the bound of its count check is the map's capacity times
\* the block size: a stored count at or below it is not rejected by that
\* check.
C8_CountBoundIsCapacity ==
    (pc = "built" /\ kind = "deque")
        => /\ (\/ mem.start >= mem.block_size
               \/ mem.map_cap < mem.map_end
               \/ mem.size > mem.map_cap * mem.block_size) => DequeRejected
           /\ mem.size <= mem.map_cap * mem.block_size => dec.err # "count"

\* C8 amended: the same rejections, and the bound of the count check is the
\* map's size (end - begin) times the block size: a stored count above it is
\* rejected, without an error, also when it is at or below map-capacity x
\* block-size.
C8_DequeRejects ==
    (pc # "new" /\ kind = "deque")
        => /\ (\/ mem.start >= mem.block_size
               \/ mem.map_cap < mem.map_end
               \/ mem.size > mem.map_cap * mem.block_size
               \/ mem.size > mem.map_end * mem.block_size)
                 => (pc = "built" /\ DequeRejected)
           /\ pc = "built"
                 => (dec.err = "count"
                       <=> /\ mem.size > 0
                           /\ mem.start < mem.block_size
                           /\ 0 < mem.map_end /\ mem.map_end <= mem.map_cap
                           /\ mem.size > mem.map_end * mem.block_size)

\* A stored count between map-size x block-size and map-capacity x
\* block-size, rejected by the count check.
C8_Witness ==
    /\ pc = "built"
    /\ kind = "deque"
    /\ dec.err = "count"
    /\ mem.size <= mem.map_cap * mem.block_size
    /\ dec.size = -1

\* C9: deque index law: in a valid deque with block size B and start offset
\* S the element produced for logical index i is the one at
\* block_map[(S+i) div B][(S+i) mod B], and every index below the size is
\* produced.
C9_DequeIndexLaw ==
    (pc = "built" /\ kind = "deque" /\ dec.size > 0)
        => \A i \in Cursors :
              /\ \A j \in 1..Len(cur[i].out) :
                    \E blk \in 0..(MaxMap - 1), off \in 0..(mem.block_size - 1) :
                       /\ mem.start + (j - 1) = blk * mem.block_size + off
                       /\ cur[i].out[j] =
                             <<(<<"[", j - 1, "]">>), mem.map[blk] + off>>
              /\ Finished(cur[i])
                    => (cur[i].st = "done" /\ Len(cur[i].out) = mem.size)

\* A deque that starts inside its first block, walked into its second block.
C9_Witness ==
    /\ pc = "built"
    /\ kind = "deque"
    /\ mem.start > 0
    /\ mem.block_size > 1
    /\ cur[1].st = "done"
    /\ Len(cur[1].out) >= 2
    /\ cur[1].out[Len(cur[1].out)][2] >= BlockBase(2)

\* The in-order sequence of the subtree below a.
RECURSIVE InOrder(_, _)
InOrder(m, a) ==
    IF a = NULL THEN <<>>
    ELSE InOrder(m, m.left[a]) \o <<a>> \o InOrder(m, m.right[a])

\* C10: for a well-formed binary search tree with n nodes, the begin cursor
\* at the leftmost node and stored count n, the tree cursor yields all n
\* nodes exactly once, in in-order.
C10_TreeInOrder ==
    (kind = "tree" /\ mem.ok)
        => /\ pc \in {"new", "built"}
           /\ Len(InOrder(mem, mem.left[END])) = mem.n
           /\ pc = "built" => (dec.size = mem.n /\ (dec.children <=> mem.n > 0))
           /\ \A i \in Cursors :
                 /\ IsPrefix([j \in 1..Len(cur[i].out) |-> cur[i].out[j][2]],
                             InOrder(mem, mem.left[END]))
                 /\ \A j \in 1..Len(cur[i].out) : cur[i].out[j][1] = <<"[", j - 1, "]">>
                 /\ Finished(cur[i])
                       => (cur[i].st = "done" /\ Len(cur[i].out) = mem.n)

\* A tree whose root has a right child with a left child, walked to the end.
C10_Witness ==
    /\ kind = "tree"
    /\ mem.ok
    /\ mem.n = 3
    /\ mem.right[1] = 3
    /\ mem.left[3] = 2
    /\ cur[1].st = "done"
    /\ Len(cur[1].out) = 3

\* The counting walk of the tree printer's constructor.
TreeWalk == list("tree", mem, StdRbtreePrinter_iterator_init(mem))

\* The walk stopped at a link it could not follow, short of the stored count.
TreeFaultMet ==
    /\ TreeWalk.st = "done"
    /\ Len(TreeWalk.out) < mem.size
    /\ Successor(mem, TreeWalk.node) = FAULT

\* C11: for a tree-backed set or map whose stored count exceeds the number
\* of elements the cursor produces before a structural fault (a null or
\* unreadable parent or child link met while ascending or descending), the
\* cursor ends the sequence at the fault without raising and the decoder is
\* invalid: size -1, summary 'invalid', no element accessor.
C11_TreeFaultInvalidates ==
    (kind = "tree" /\ pc # "new")
        => /\ pc # "raised"
           /\ TreeWalk.st # "raised"
           /\ \A i \in Cursors : cur[i].st # "raised"
           /\ (TreeWalk.st = "done" /\ Len(TreeWalk.out) < mem.size)
                 => TreeFaultMet
           /\ TreeFaultMet
                 => /\ pc = "built"
                    /\ dec.size = -1
                    /\ Summary_now = invalid
                    /\ ~dec.children
                    /\ \A i \in Cursors : cur[i].st = "none"

\* Stored count 2, two nodes, the second with a null parent: one node is
\* produced before the ascent fails.
C11_Witness ==
    /\ pc = "built"
    /\ kind = "tree"
    /\ mem.size = 2
    /\ mem.n = 2
    /\ mem.right[1] = 2
    /\ mem.parent[2] = NULL
    /\ Len(TreeWalk.out) = 1
    /\ TreeFaultMet
    /\ dec.size = -1

\* The number of entries on the chain from a to the null link; -1 if the
\* chain does not reach a null link.
RECURSIVE ChainToNull(_, _, _)
ChainToNull(m, a, n) ==
    IF a = NULL THEN n
    ELSE IF a \notin ListNodes \/ n > MaxNodes THEN -1
    ELSE ChainToNull(m, m.next[a], n + 1)

HashChainLength == ChainToNull(mem, mem.head, 0)

\* The counting walk of the hash-table printer's constructor.
HashWalk == list("hash", mem, HashTablePrinter_iterator_init(mem))

\* The entries a cursor produced are the first entries of the chain from
\* the stored head, labelled from 0, and no more than the stored count.
HashInChainOrder(c) ==
    /\ Len(c.out) <= mem.size
    /\ \A j \in 1..Len(c.out) :
          c.out[j] = <<(<<"[", j - 1, "]">>), ChainNode(mem, mem.head, j)>>

\* C12: the hash-table cursor starts at the stored head pointer and follows
\* the next links, producing entries in chain order and never more than the
\* stored count; a null link reached before stored-count entries makes the
\* decoder invalid (summary 'invalid', no accessor); a chain of exactly the
\* stored count N > 0 gives a valid decoder with count N that yields the
\* entries 0..N-1 in chain order.
C12_HashChainOrder ==
    (kind = "hash" /\ pc # "new")
        => /\ pc = "built"
           /\ HashInChainOrder(HashWalk)
           /\ \A i \in Cursors : HashInChainOrder(cur[i])
           /\ (HashChainLength >= 0 /\ HashChainLength < mem.size)
                 => /\ dec.size = -1
                    /\ Summary_now = invalid
                    /\ ~dec.children
           /\ (HashChainLength = mem.size /\ mem.size > 0)
                 => /\ dec.size = mem.size
                    /\ dec.children
                    /\ Summary_now = Summary("count", mem.size, 0)
                    /\ \A i \in Cursors :
                          Finished(cur[i])
                             => (cur[i].st = "done"
                                   /\ Len(cur[i].out) = mem.size)

\* A chain of two entries with stored count 2, walked to its end.
C12_Witness ==
    /\ pc = "built"
    /\ kind = "hash"
    /\ mem.size = 2
    /\ HashChainLength = 2
    /\ cur[1].st = "done"
    /\ Len(cur[1].out) = 2
    /\ cur[1].out[2][2] = mem.next[mem.head]

\* C13: for a non-boolean vector, size is end - begin and capacity is
\* end_capacity - begin; the decoder is invalid (summary 'invalid', no
\* accessor) whenever size > capacity; when 0 < size <= capacity and the
\* boundary reads succeed, the summary reports length = size and capacity =
\* capacity, and element i of the sequence is the value at begin + i.
C13_VectorSizeCapacity ==
    (kind = "vector" /\ pc # "new")
        => LET size == mem.end - mem.begin
               capacity == mem.end_cap - mem.begin
           IN  /\ pc = "built"
               /\ size > capacity
                     => /\ dec.size = -1
                        /\ Summary_now = invalid
                        /\ ~dec.children
               /\ (/\ 0 < size
                   /\ size <= capacity
                   /\ mem.begin \notin mem.bad
                   /\ (mem.end - 1) \notin mem.bad)
                     => /\ dec.size = size
                        /\ dec.capacity = capacity
                        /\ Summary_now = Summary("length_capacity", size, capacity)
                        /\ dec.children
                        /\ \A i \in Cursors :
                              /\ Len(cur[i].out) <= size
                              /\ \A j \in 1..Len(cur[i].out) :
                                    cur[i].out[j] =
                                       <<(<<"[", j - 1, "]">>), mem.begin + (j - 1)>>
                              /\ Finished(cur[i])
                                    => (cur[i].st = "done"
                                          /\ Len(cur[i].out) = size)

\* Three elements with capacity 4, walked to the end.
C13_Witness ==
    /\ pc = "built"
    /\ kind = "vector"
    /\ mem.end - mem.begin = 3
    /\ mem.end_cap - mem.begin = 4
    /\ Summary_now = Summary("length_capacity", 3, 4)
    /\ cur[1].st = "done"
    /\ Len(cur[1].out) = 3
    /\ cur[1].out[3][1] = <<"[", 2, "]">>

\* C14: for an empty vector (begin == end == end_capacity) the summary is
\* the empty-with-capacity form 'empty <name> (capacity=0)', carrying the
\* type name and the capacity, and no element sequence is exposed.
C14_EmptyVectorSummary ==
    (pc = "built" /\ kind = "vector"
       /\ mem.begin = mem.end /\ mem.end = mem.end_cap)
        => /\ Summary_now = Summary("empty_capacity", 0, 0)
           /\ ~dec.children

\* Bit (i mod W) of storage word (i div W).
BitOf(m, i) ==
    (m.words[i \div m.bits_per_word] \div (2 ^ (i % m.bits_per_word))) % 2 = 1

\* Every storage word that holds one of the stored bits can be read.
BoolWordsReadable(m) ==
    \A i \in 0..(m.size - 1) : (i \div m.bits_per_word) # m.bad

\* C15: for a boolean vector with stored bit count N (N <= capacity in
\* bits, storage readable) and word width W, the sequence has exactly N
\* elements and element i is true iff bit (i mod W) of storage word (i div W)
\* is set; the cursor moves to the next storage word exactly after every W
\* bits and resets its bit offset to 0.
C15_BoolVectorBits ==
    (/\ kind = "vector_bool"
     /\ pc # "new"
     /\ mem.size <= mem.cap * mem.bits_per_word
     /\ BoolWordsReadable(mem))
        => /\ pc = "built"
           /\ dec.size = mem.size
           /\ dec.children <=> mem.size > 0
           /\ \A i \in Cursors :
                 /\ Len(cur[i].out) <= mem.size
                 /\ \A j \in 1..Len(cur[i].out) :
                       cur[i].out[j] =
                          <<(<<"[", j - 1, "]">>), BitOf(mem, j - 1)>>
                 /\ cur[i].st = "open"
                       => /\ cur[i].node = Len(cur[i].out) \div mem.bits_per_word
                          /\ cur[i].so = Len(cur[i].out) % mem.bits_per_word
                 /\ Finished(cur[i])
                       => (cur[i].st = "done" /\ Len(cur[i].out) = mem.size)

\* W + 1 bits with only bit 0 and bit W set: true at 0 and W, false between.
C15_Witness ==
    /\ pc = "built"
    /\ kind = "vector_bool"
    /\ mem.size = mem.bits_per_word + 1
    /\ mem.words[0] = 1
    /\ mem.words[1] = 1
    /\ cur[1].st = "done"
    /\ Len(cur[1].out) = mem.bits_per_word + 1
    /\ cur[1].out[1][2] = TRUE
    /\ \A j \in 2..mem.bits_per_word : cur[1].out[j][2] = FALSE
    /\ cur[1].out[mem.bits_per_word + 1][2] = TRUE

\* The long representations that hold the content of the short string m:
\* the same length, the same characters, in a readable heap buffer; the
\* inline buffer of the twin, which is not its data, is filled with any one
\* character.
LongTwins(m) ==
    IF m.ssize % 2 = 0
    THEN LET L == m.ssize \div 2
         IN  {[ssize |-> s, lsize |-> L, ldata |-> HBUF, heaplen |-> h,
               sdata |-> sd, hdata |-> hd] :
                 s \in {x \in 0..(2 * MaxStr + 1) : x % 2 = 1},
                 h \in (L + 1)..(MaxStr + 1),
                 sd \in {[i \in 0..(MaxStr - 1) |-> ch] : ch \in Chars},
                 hd \in {f \in [0..(MaxStr - 1) -> Chars] :
                            \A i \in 0..(L - 1) : f[i] = m.sdata[i]}}
    ELSE {}

\* C16: the string decoder selects the short representation iff the low bit
\* of the shared size field is 0, taking length = stored size shifted right
\* by one and data = the inline buffer, and otherwise takes length and data
\* pointer from the long representation; a short and a long representation
\* holding the same content of length L (both readable) produce identical
\* summaries.
C16_StringRepresentation ==
    (kind = "string" /\ pc # "new")
        => LET short == mem.ssize % 2 = 0
               size == IF short THEN mem.ssize \div 2 ELSE mem.lsize
               ptr == IF short THEN SBUF ELSE mem.ldata
           IN  /\ pc = "built"
               /\ dec.probe[1] = ptr
               /\ Len(dec.probe) = 2 => dec.probe[2] = ptr + size
               /\ dec.size >= 0 => (dec.size = size /\ dec.ptr = ptr)
               /\ short
                     => /\ Summary_now.form = "string"
                        /\ Summary_now.text =
                              [i \in 1..size |-> mem.sdata[i - 1]]
               /\ \A twin \in LongTwins(mem) :
                     to_string("string", twin, Construct("string", twin).dec)
                        = Summary_now

\* A short string of the greatest length that has long twins.
C16_Witness ==
    /\ pc = "built"
    /\ kind = "string"
    /\ mem.ssize = 2 * MaxStr
    /\ mem.sdata[0] = "a"
    /\ mem.sdata[1] = "b"
    /\ LongTwins(mem) # {}
    /\ Summary_now.n = MaxStr
    /\ Summary_now.text[2] = "b"

\* The tag has the form base<args> with a base of k characters of the class.
TemplateForm(t, k) ==
    /\ 1 <= k
    /\ k + 2 <= Len(t)
    /\ \A i \in 1..k : t[i] \in ClassChars
    /\ t[k + 1] = "<"
    /\ t[Len(t)] = ">"

\* The positions in the list of the subprinters registered under a name.
Named(b) == {i \in 1..Len(subprinters) : subprinters[i].name = b}

\* The subprinter dispatch uses for a name: the one registered last.
LastNamed(b) == CHOOSE i \in Named(b) : \A j \in Named(b) : j <= i

\* C17: for a value whose type tag has the form base<args> with base made
\* of [a-zA-Z0-9_:], the registry returns the decoder built by the
\* constructor registered under exactly that base name; it returns None,
\* without raising, when the type has no tag, when the tag is not of that
\* form, when the base name is not registered, or when the subprinter
\* registered under that name is disabled.
C17_Dispatch ==
    ret.op = "call"
        => LET t == IF ret.arg.code = "ref" THEN ret.arg.target
                    ELSE ret.arg.tag
           IN  /\ ~ret.raised
               /\ \A k \in 1..MaxTag :
                     (TemplateForm(t, k) /\ Named(SubSeq(t, 1, k)) # {}
                        /\ subprinters[LastNamed(SubSeq(t, 1, k))].enabled)
                        => ret.val =
                              [function |->
                                  subprinters[LastNamed(SubSeq(t, 1, k))].function,
                               typename |-> SubSeq(t, 1, k)]
               /\ t = None => ret.val = NoDecoder
               /\ (\A k \in 1..MaxTag : ~TemplateForm(t, k))
                     => ret.val = NoDecoder
               /\ \A k \in 1..MaxTag :
                     (TemplateForm(t, k) /\ Named(SubSeq(t, 1, k)) = {})
                        => ret.val = NoDecoder
               /\ \A k \in 1..MaxTag :
                     (TemplateForm(t, k) /\ Named(SubSeq(t, 1, k)) # {}
                        /\ ~subprinters[LastNamed(SubSeq(t, 1, k))].enabled)
                        => ret.val = NoDecoder

\* Two names registered with different constructors; a value whose tag has
\* the longer one as its base gets that name's constructor.
C17_Witness ==
    /\ ret.op = "call"
    /\ ret.arg.tag = <<"a", "a", "<", ">">>
    /\ Len(subprinters) = 2
    /\ subprinters[1] = RxPrinter(<<"a">>, "StdVectorPrinter")
    /\ subprinters[2] = RxPrinter(<<"a", "a">>, "StdListPrinter")
    /\ ret.val = [function |-> "StdListPrinter", typename |-> <<"a", "a">>]

\* The positions of the set bits: w * bits_per_word + b for bit b of word w.
BitsetPositions(m) ==
    {p \in 0..(m.n_words * m.bits_per_word - 1) :
        \E w \in 0..(m.n_words - 1), b \in 0..(m.bits_per_word - 1) :
            /\ p = w * m.bits_per_word + b
            /\ (m.words[w] \div (2 ^ b)) % 2 = 1}

\* C18: the bitset decoder's element sequence contains one entry per set
\* bit and none for clear bits, across all storage words; the entry for bit
\* b of word w is labelled w * bits_per_word + b, entries appear in strictly
\* increasing position order, and the bit width in the summary is the
\* type's declared width regardless of how many bits are set.
C18_BitsetSetBits ==
    (kind = "bitset" /\ pc # "new")
        => /\ pc = "built"
           /\ Summary_now = Summary("length", mem.bit_count, 0)
           /\ \A i \in Cursors :
                 /\ \A j \in 1..Len(cur[i].out) :
                       /\ \E p \in BitsetPositions(mem) :
                             cur[i].out[j] = <<(<<"[", p, "]">>), 1>>
                       /\ \A k \in 1..(j - 1) :
                             cur[i].out[k][1][2] < cur[i].out[j][1][2]
                 /\ Finished(cur[i])
                       => /\ cur[i].st = "done"
                          /\ Len(cur[i].out) = Cardinality(BitsetPositions(mem))

\* Two words with one set bit each, the second word's bit labelled past the
\* first word.
C18_Witness ==
    /\ pc = "built"
    /\ kind = "bitset"
    /\ mem.n_words = 2
    /\ mem.words[0] = 2
    /\ mem.words[1] = 1
    /\ cur[1].st = "done"
    /\ cur[1].out = <<(<<(<<"[", 1, "]">>), 1>>),
                      (<<(<<"[", mem.bits_per_word, "]">>), 1>>)>>
    /\ Summary_now.n = mem.bit_count

\* The counting walk of the deque printer's constructor, made when the
\* plausibility test passes and every block pointer can be dereferenced.
DequeWalk == list("deque", mem, StdDequePrinter_iterator_init(mem.size))

DequeWalked ==
    /\ DequePlausible(mem, StdSplitBufferPrinter_init(mem)) = "ok"
    /\ DequeBlocksReadable(mem, StdSplitBufferPrinter_init(mem))

\* The number of elements between the start offset and the end of the map.
MapRoom == mem.map_end * mem.block_size - mem.start

\* The block index computed for an element below the stored count reaches
\* the end of the map.
ReachesMapEnd == DequeWalked /\ MapRoom < mem.size

\* C19 as stated: when the cursor's block index reaches the end of the map
\* before stored-count elements were produced, iteration stops early and
\* the decoder is not declared invalid: its size is non-negative and its
\* summary is not 'invalid'.
C19_EarlyStopKeepsValid ==
    (kind = "deque" /\ pc = "built" /\ ReachesMapEnd)
        => /\ DequeWalk.st = "done"
           /\ Len(DequeWalk.out) < mem.size
           /\ dec.size >= 0
           /\ Summary_now # invalid

\* C19 amended: when the cursor's block index reaches the end of the map
\* before stored-count elements were produced, iteration stops early
\* without raising; this happens only in the counting walk of the
\* constructor, which then finds the count short of the stored count and
\* declares the decoder invalid: size -1, summary 'invalid', no accessor.
\* The cursors of a valid deque produce all stored-count elements.
C19_EarlyStopInvalidates ==
    (kind = "deque" /\ pc = "built")
        => /\ ReachesMapEnd
                 => /\ DequeWalk.st = "done"
                    /\ Len(DequeWalk.out) = MapRoom
                    /\ dec.size = -1
                    /\ Summary_now = invalid
                    /\ ~dec.children
                    /\ \A i \in Cursors : cur[i].st = "none"
           /\ \A i \in Cursors :
                 Finished(cur[i])
                    => /\ cur[i].st = "done"
                       /\ Len(cur[i].out) = mem.size
                       /\ ~ReachesMapEnd

\* A deque that starts inside its only block with a count that fills a
\* whole block: the walk produces an element and then meets the map's end.
C19_Witness ==
    /\ pc = "built"
    /\ kind = "deque"
    /\ ReachesMapEnd
    /\ mem.start > 0
    /\ mem.size <= mem.map_end * mem.block_size
    /\ Len(DequeWalk.out) > 0
    /\ dec.size = -1

\* C20: after construction a decoder's derived state is frozen: under every
\* sequence of elements() calls and cursor pulls (complete, partial or
\* abandoned) the decoder's size, validity, capacity, summary and the
\* presence of the element accessor are unchanged; a step changes the state
\* of one cursor only.
C20_FrozenAfterConstruction ==
    [][pc = "built"
         => /\ pc' = "built"
            /\ dec'.size = dec.size
            /\ dec'.capacity = dec.capacity
            /\ dec'.children = dec.children
            /\ dec' = dec
            /\ to_string(kind', mem', dec') = to_string(kind, mem, dec)
            /\ (to_string(kind', mem', dec') = invalid)
                  = (to_string(kind, mem, dec) = invalid)
            /\ \A i, j \in Cursors :
                  (cur'[i] # cur[i] /\ cur'[j] # cur[j]) => i = j]_vars

\* A valid printer with one sequence consumed to its end and another one
\* abandoned part of the way.
C20_Witness ==
    /\ pc = "built"
    /\ dec.size > 1
    /\ dec = Construct(kind, mem).dec
    /\ Summary_now # invalid
    /\ cur[2].st = "done"
    /\ cur[1].st = "open"
    /\ Len(cur[1].out) = 1

\* A well-formed container that holds no element, for the printers that
\* keep a size.
WellFormedEmpty ==
    CASE kind = "vector" -> mem.begin = mem.end /\ mem.end <= mem.end_cap
      [] kind = "vector_bool" -> mem.size = 0
      [] kind = "list" -> mem.size = 0 /\ mem.hnext = HEAD
      [] kind = "forward_list" -> mem.head = NULL
      [] kind = "deque" ->
           /\ mem.size = 0
           /\ mem.start < mem.block_size
           /\ mem.map_end <= mem.map_cap
           /\ mem.map_end = 0 => mem.start = 0
           /\ \A p \in 0..(mem.map_end - 1) : mem.map[p] # NULL
      [] kind = "tree" -> mem.ok /\ mem.n = 0
      [] kind = "hash" -> mem.size = 0 /\ mem.head = NULL
      [] OTHER -> FALSE

\* C21: for every size-bearing decoder (vector, list, forward_list, deque,
\* set/map, unordered set/map) a well-formed container holding zero elements
\* is summarised as empty, never as 'invalid', and exposes no element
\* accessor; this includes a deque whose stored element count is 0.
C21_EmptyIsEmpty ==
    (pc # "new" /\ WellFormedEmpty)
        => /\ pc = "built"
           /\ Summary_now.form \in {"empty", "empty_capacity"}
           /\ Summary_now # invalid
           /\ ~dec.children

\* Every name of the dictionary maps to a subprinter of the list that
\* carries this name.
LookupInList(subs, look) ==
    \A n \in DOMAIN look :
        look[n] \in 1..Len(subs) /\ subs[look[n]].name = n

\* Every subprinter of the list is the one the dictionary holds for its
\* name, so no name is listed twice.
ListInLookup(subs, look) ==
    \A i \in 1..Len(subs) :
        subs[i].name \in DOMAIN look /\ look[subs[i].name] = i

\* A call for a name of which a listed subprinter is disabled returned None.
DisabledDeclines(subs, r) ==
    r.op = "call"
        => \A i \in 1..Len(subs) :
              (r.arg.tag = subs[i].name \o <<"<", ">">> /\ ~subs[i].enabled)
                 => r.val = NoDecoder

\* The name has a character outside the class [a-zA-Z0-9_:].
OutsideClass(name) == \E i \in 1..Len(name) : name[i] \notin ClassChars

\* C22: registry invariant: after any sequence of add, add_version and
\* add_container calls every name in the lookup table maps to a subprinter
\* that is in the list under the same name, and every subprinter in the list
\* is the one the lookup table holds for its name (no name appears twice in
\* the list), so that disabling the listed subprinter of a name always makes
\* dispatch for that name return None; an add whose name contains a
\* character outside [a-zA-Z0-9_:] raises ValueError and leaves the list and
\* the lookup table unchanged.
C22_RegistryInvariant ==
    [][/\ LookupInList(subprinters', lookup')
       /\ ListInLookup(subprinters', lookup')
       /\ DisabledDeclines(subprinters', ret')
       /\ (ret'.op = "add" /\ OutsideClass(ret'.arg))
             => /\ ret'.raised
                /\ subprinters' = subprinters
                /\ lookup' = lookup]_vars

====
